---- MODULE Spec2Model ----
(***************************************************************************)
(* ADS-B data layer of aviator (src/aviator/adsb.py): the DF17 frame       *)
(* validator, the field decoders, the CPR position resolver and the        *)
(* per-aircraft flight table, as a state machine over the module globals.  *)
(*                                                                         *)
(* Representation of Python values:                                        *)
(*   None            <<>>            (Some(v) is <<v>>)                    *)
(*   str             a sequence of one-character strings; the characters   *)
(*                   U+FB00 (ligature ff) and U+0663 (Arabic-Indic three)  *)
(*                   are written "U+FB00" and "U+0663"                     *)
(*   bit string      a sequence of 0/1                                     *)
(*   float lat/lon   an exact fraction [num, den] in lowest terms          *)
(*   float distance  the unevaluated application round(haversine(..), 2)   *)
(***************************************************************************)
EXTENDS Integers, Sequences, FiniteSets, TLC

VARIABLES
    MODE,               \* adsb.MODE
    _error_count,       \* adsb._error_count
    _last_error,        \* adsb._last_error
    _flights_by_icao,   \* adsb._flights_by_icao : icao -> record
    _cpr_cache,         \* adsb._cpr_cache : icao -> parity -> tuple
    _sim_flights,       \* adsb._sim_flights
    now,                \* int(time.time())
    last                \* the last call: its name, arguments and outcome

vars == <<MODE, _error_count, _last_error, _flights_by_icao, _cpr_cache,
          _sim_flights, now, last>>

\* ------------------------------------------------------------- bounds
\* The clock runs from 0 to MaxTime seconds.
MaxTime == 1
\* Rejections are counted up to MaxErrors.
MaxErrors == 2
\* The simulator advances its flights at most MaxSimAdvance times.
MaxSimAdvance == 1

\* ------------------------------------------------------ Python values
None == <<>>
Some(v) == <<v>>
Val(o) == o[1]

RECURSIVE Gcd(_, _)
Gcd(a, b) == IF b = 0 THEN a ELSE Gcd(b, a % b)

\* The float n/d (n >= 0, d > 0) in lowest terms.
Frac(n, d) == LET g == Gcd(n, d) IN [num |-> n \div g, den |-> d \div g]

\* n/d < ip + f8 / 10^8, for n >= 0, d > 0 and 0 <= f8 < 10^8, in steps
\* that stay within 32-bit integers.
FracLess(n, d, ip, f8) ==
    IF n < ip * d THEN TRUE
    ELSE IF n >= (ip + 1) * d THEN FALSE
    ELSE LET r  == n - ip * d
             a  == (r * 10000) \div d
             ra == (r * 10000) % d
             hi == f8 \div 10000
             lo == f8 % 10000
         IN  IF a # hi THEN a < hi ELSE ra * 10000 < lo * d

\* --------------------------------------------------- str.strip, upper
WhiteSpace == {" "}

RECURSIVE LStrip(_)
LStrip(s) ==
    IF s # <<>> /\ Head(s) \in WhiteSpace THEN LStrip(Tail(s)) ELSE s

RECURSIVE RStrip(_)
RStrip(s) ==
    IF s # <<>> /\ s[Len(s)] \in WhiteSpace
    THEN RStrip(SubSeq(s, 1, Len(s) - 1)) ELSE s

\* str.strip()
Strip(s) == RStrip(LStrip(s))

\* str.upper() of one character: a string, since a character can upper-case
\* to more than one character (U+FB00 -> "FF").
UpperChar(c) ==
    CASE c = "a" -> <<"A">> [] c = "b" -> <<"B">> [] c = "c" -> <<"C">>
      [] c = "d" -> <<"D">> [] c = "e" -> <<"E">> [] c = "f" -> <<"F">>
      [] c = "g" -> <<"G">>
      [] c = "U+FB00" -> <<"F", "F">>
      [] OTHER -> <<c>>

RECURSIVE Upper(_)
Upper(s) == IF s = <<>> THEN <<>> ELSE UpperChar(Head(s)) \o Upper(Tail(s))

\* ------------------------------------------------------ int(c, 16)
HexDigits ==
    <<"0", "1", "2", "3", "4", "5", "6", "7",
      "8", "9", "A", "B", "C", "D", "E", "F">>

\* A digit parser that reads 0 for a character that is no digit.
HexVal_lenient(c) ==
    LET u == IF c \in {"a", "b", "c", "d", "e", "f"} THEN UpperChar(c)[1] ELSE c
    IN  IF \E i \in 1..16 : HexDigits[i] = u
        THEN (CHOOSE i \in 1..16 : HexDigits[i] = u) - 1
        ELSE 0

\* int(c, 16) of one character; -1 stands for ValueError.  Python accepts
\* every Unicode decimal digit, so U+0663 is 3.
HexVal(c) ==
    LET u == IF c \in {"a", "b", "c", "d", "e", "f"} THEN UpperChar(c)[1] ELSE c
    IN  IF \E i \in 1..16 : HexDigits[i] = u
        THEN (CHOOSE i \in 1..16 : HexDigits[i] = u) - 1
        ELSE IF c = "U+0663" THEN 3 ELSE -1

\* f"{v:04b}"
Bin4(v) == <<(v \div 8) % 2, (v \div 4) % 2, (v \div 2) % 2, v % 2>>

\* int(bits, 2)
RECURSIVE BinToInt(_)
BinToInt(b) ==
    IF b = <<>> THEN 0
    ELSE 2 * BinToInt(SubSeq(b, 1, Len(b) - 1)) + b[Len(b)]

\* The Python slice s[a:b] of a sequence.
Slice(s, a, b) == SubSeq(s, a + 1, IF b > Len(s) THEN Len(s) ELSE b)

\* --------------------------------------------------- RAW MODE DECODING
\* _hex_to_bits: the bit string, or ValueError at the first character that
\* int(c, 16) refuses.
RECURSIVE HexCharsToBits(_)
HexCharsToBits(s) ==
    IF s = <<>> THEN [exc |-> "", bad |-> "", bits |-> <<>>]
    ELSE IF HexVal(Head(s)) < 0
         THEN [exc |-> "ValueError", bad |-> Head(s), bits |-> <<>>]
         ELSE LET rest == HexCharsToBits(Tail(s))
              IN  IF rest.exc # "" THEN rest
                  ELSE [rest EXCEPT !.bits = Bin4(HexVal(Head(s))) \o @]

_hex_to_bits(hex_frame) == HexCharsToBits(Upper(hex_frame))

_decode_df(bits) == BinToInt(Slice(bits, 0, 5))

\* f"{n:06X}"
Hex6(n) ==
    [i \in 1..6 |-> HexDigits[((n \div (16 ^ (6 - i))) % 16) + 1]]

_decode_icao(bits) == Hex6(BinToInt(Slice(bits, 8, 32)))

_decode_type_code(bits) == BinToInt(Slice(bits, 32, 37))

\* A decoder that leaves the Q-bit inside the altitude code.
_decode_altitude_keepq(bits, type_code) ==
    IF 9 <= type_code /\ type_code <= 18
    THEN LET alt_field == Slice(bits, 40, 52)
         IN  IF alt_field[8] = 1 THEN Some(BinToInt(alt_field) * 25 - 1000)
             ELSE None
    ELSE None

_decode_altitude(bits, type_code) ==
    IF 9 <= type_code /\ type_code <= 18
    THEN LET alt_field == Slice(bits, 40, 52)
             q_bit == alt_field[8]
             eleven_bits == Slice(alt_field, 0, 7) \o Slice(alt_field, 8, 12)
             alt_code == BinToInt(eleven_bits)
         IN  IF q_bit = 1 THEN Some(alt_code * 25 - 1000) ELSE None
    ELSE None

_decode_cpr(bits, type_code) ==
    IF ~(9 <= type_code /\ type_code <= 18) THEN None
    ELSE Some([lat_cpr |-> BinToInt(Slice(bits, 54, 71)),
               lon_cpr |-> BinToInt(Slice(bits, 71, 88)),
               parity  |-> bits[54]])

_map_callsign_char(v) ==
    IF v = 0 THEN " "
    ELSE IF 1 <= v /\ v <= 26
    THEN <<"A", "B", "C", "D", "E", "F", "G", "H", "I", "J", "K", "L", "M",
           "N", "O", "P", "Q", "R", "S", "T", "U", "V", "W", "X", "Y", "Z">>[v]
    ELSE IF 48 <= v /\ v <= 57 THEN HexDigits[v - 47]
    ELSE IF v = 32 THEN " "
    ELSE " "

\* A decoder that returns the eight mapped characters as they are.
_decode_callsign_unstripped(bits, type_code) ==
    IF ~(1 <= type_code /\ type_code <= 4) THEN None
    ELSE LET char_bits == Slice(bits, 40, 88)
         IN  Some([i \in 1..8 |->
                     _map_callsign_char(
                         BinToInt(Slice(char_bits, 6 * (i - 1), 6 * i)))])

_decode_callsign(bits, type_code) ==
    IF ~(1 <= type_code /\ type_code <= 4) THEN None
    ELSE LET char_bits == Slice(bits, 40, 88)
             chars == [i \in 1..8 |->
                         _map_callsign_char(
                             BinToInt(Slice(char_bits, 6 * (i - 1), 6 * i)))]
             callsign == Strip(chars)
         IN  IF callsign = <<>> THEN None ELSE Some(callsign)

\* int(round(math.sqrt(n))): the square root of an integer is never a
\* half-integer, so the nearest integer is the s with (2s-1)^2 < 4n < (2s+1)^2.
RoundSqrt(n) ==
    CHOOSE s \in 0..1447 :
        (2 * s - 1) * (2 * s - 1) <= 4 * n /\ 4 * n < (2 * s + 1) * (2 * s + 1)

\* int(round(angle)) % 360 for angle = degrees(atan2(vx, vy)), plus 360 when
\* negative.  Evaluated on the eight compass directions, where the angle is
\* exact; elsewhere the application is left unevaluated.
TrackDeg(vx, vy) ==
    CASE vx = 0 /\ vy >= 0 -> 0
      [] vx > 0 /\ vy = vx -> 45
      [] vx > 0 /\ vy = 0 -> 90
      [] vx > 0 /\ vy = -vx -> 135
      [] vx = 0 /\ vy < 0 -> 180
      [] vx < 0 /\ vy = vx -> 225
      [] vx < 0 /\ vy = 0 -> 270
      [] vx < 0 /\ vy = -vx -> 315
      [] OTHER -> <<"atan2", vx, vy>>

\* _decode_velocity: <<track, speed>>.
_decode_velocity(bits, type_code) ==
    IF type_code # 19 THEN <<None, None>>
    ELSE LET subtype == BinToInt(Slice(bits, 37, 40))
             ew_dir == bits[46]
             ew_mag0 == BinToInt(Slice(bits, 46, 56))
             ns_dir == bits[57]
             ns_mag0 == BinToInt(Slice(bits, 57, 67))
             ew_mag == IF ew_mag0 > 0 THEN ew_mag0 - 1 ELSE ew_mag0
             ns_mag == IF ns_mag0 > 0 THEN ns_mag0 - 1 ELSE ns_mag0
             vx == ew_mag * (IF ew_dir = 1 THEN -1 ELSE 1)
             vy == ns_mag * (IF ns_dir = 1 THEN -1 ELSE 1)
         IN  IF subtype \notin {1, 2} THEN <<None, None>>
             ELSE IF ew_mag0 = 0 /\ ns_mag0 = 0 THEN <<None, None>>
             ELSE <<Some(TrackDeg(vx, vy)), Some(RoundSqrt(vx * vx + vy * vy))>>

\* ------------------------------------------------ CPR position resolver
\* The thresholds of _cprNL in source order, each as <<integer part, eight
\* decimals>>: below the i-th threshold the zone count is 60 - i.
NLTable ==
    <<
      <<10, 47047130>>, <<14, 82817437>>, <<18, 18626357>>, <<21, 2939493>>,
      <<23, 54504487>>, <<25, 82924707>>, <<27, 93898710>>, <<29, 91135686>>,
      <<31, 77209708>>, <<33, 53993436>>, <<35, 22899598>>, <<36, 85025108>>,
      <<38, 41241892>>, <<39, 92256684>>, <<41, 38651832>>, <<42, 80914012>>,
      <<44, 19454951>>, <<45, 54626723>>, <<46, 86733252>>, <<48, 16039128>>,
      <<49, 42776439>>, <<50, 67150166>>, <<51, 89342469>>, <<53, 9516153>>,
      <<54, 27817472>>, <<55, 44378444>>, <<56, 59318756>>, <<57, 72747354>>,
      <<58, 84763776>>, <<59, 95459277>>, <<61, 4917774>>, <<62, 13216659>>,
      <<63, 20427479>>, <<64, 26616523>>, <<65, 31845310>>, <<66, 36171008>>,
      <<67, 39646774>>, <<68, 42322022>>, <<69, 44242631>>, <<70, 45451075>>,
      <<71, 45986473>>, <<72, 45884545>>, <<73, 45177442>>, <<74, 43893416>>,
      <<75, 42056257>>, <<76, 39684391>>, <<77, 36789461>>, <<78, 33374083>>,
      <<79, 29428225>>, <<80, 24923213>>, <<81, 19801349>>, <<82, 13956981>>,
      <<83, 7199445>>, <<83, 99173563>>, <<84, 89583158>>, <<85, 78102276>>,
      <<86, 64231607>>, <<87, 47308768>>, <<88, 26416571>>
    >>

\* The if-chain of _cprNL from its i-th test on, for the float n/d >= 0.
RECURSIVE NLFrom(_, _, _)
NLFrom(i, n, d) ==
    IF i > Len(NLTable) THEN 0
    ELSE IF FracLess(n, d, NLTable[i][1], NLTable[i][2]) THEN 60 - i
    ELSE NLFrom(i + 1, n, d)

\* _cprNL(lat) for the float lat = n/d, d > 0.
_cprNL(n, d) == NLFrom(1, IF n < 0 THEN -n ELSE n, d)

\* Lines 268-305 of _decode_cpr_position: the position from an even and an
\* odd tuple, Some(<<lat, lon>>) where lon is None when the zone count is 0.
ResolvePair(even, odd) ==
    LET lat_even == even.lat_cpr
        lon_even == even.lon_cpr
        lat_odd == odd.lat_cpr
        lon_odd == odd.lon_cpr
        t_even == even.ts
        t_odd == odd.ts
        j == (59 * lat_even - 60 * lat_odd) \div 131072
        lat_even_val == Frac(6 * ((lat_even + j) % 60), 1)
        lat_odd_val == Frac(360 * ((lat_odd + j) % 59), 59)
        lat == IF t_even > t_odd THEN lat_even_val ELSE lat_odd_val
        ni == _cprNL(lat.num, lat.den)
        m == (lon_even * (ni - 1) - lon_odd * ni) \div 131072
        lon_sel == IF t_even > t_odd THEN lon_even ELSE lon_odd
        lon == IF ni > 0
               THEN Some(Frac(360 * ((lon_sel + m) % ni), ni))
               ELSE None
    IN  Some(<<Some(lat), lon>>)

\* A resolver that takes a missing tuple for a zero tuple instead of
\* returning None.
_decode_cpr_position_defaulting(cache) ==
    IF cache = None THEN None
    ELSE LET zero == [lat_cpr |-> 0, lon_cpr |-> 0, ts |-> 0]
             get(p) == IF p \in DOMAIN Val(cache) THEN Val(cache)[p] ELSE zero
         IN  ResolvePair(get("even"), get("odd"))

\* _decode_cpr_position for the cache entry of one ICAO address (None when
\* the address has none): None unless both parities are cached.
_decode_cpr_position(cache) ==
    IF cache = None \/ "even" \notin DOMAIN Val(cache)
                    \/ "odd" \notin DOMAIN Val(cache)
    THEN None
    ELSE ResolvePair(Val(cache)["even"], Val(cache)["odd"])

\* round(_haversine(lat1, lon1, lat2, lon2), 2): the subtraction lon2 - lon1
\* raises TypeError when an operand is None.
_haversine(lat1, lon1, lat2, lon2) ==
    IF lat1 = None \/ lon1 = None \/ lat2 = None \/ lon2 = None
    THEN [exc |-> "TypeError", val |-> None]
    ELSE [exc |-> "",
          val |-> Some([from |-> <<Val(lat1), Val(lon1)>>,
                        to |-> <<Val(lat2), Val(lon2)>>])]

\* ------------------------------------------------------ flight table
\* The record _update_raw_flight creates for a new address; the key
\* raw_frame is added at the end of the call.
NewRecord(icao, type_code, altitude, callsign, velocity, t) ==
    [icao |-> icao, callsign |-> callsign, lat |-> None, lon |-> None,
     alt_ft |-> altitude, heading |-> velocity[1], gs_kt |-> velocity[2],
     dist_km |-> None, updated |-> t, mode |-> "raw", last_tc |-> type_code,
     raw_frame |-> None]

\* A merge that takes every field from the incoming decode, absent or not.
MergeRecord_overwrite(rec, type_code, altitude, callsign, velocity, t) ==
    [rec EXCEPT !.alt_ft = altitude, !.callsign = callsign,
                !.heading = velocity[1], !.gs_kt = velocity[2],
                !.last_tc = type_code, !.updated = t]

\* The else branch of _update_raw_flight: the fields the decode supplies
\* overwrite the record's, the others stay.
MergeRecord(rec, type_code, altitude, callsign, velocity, t) ==
    [rec EXCEPT
        !.alt_ft = IF altitude # None THEN altitude ELSE @,
        !.callsign = IF callsign # None /\ Val(callsign) # <<>>
                     THEN callsign ELSE @,
        !.heading = IF velocity[1] # None THEN velocity[1] ELSE @,
        !.gs_kt = IF velocity[2] # None THEN velocity[2] ELSE @,
        !.last_tc = type_code,
        !.updated = t]

\* "if pos:" a tuple of two elements is true whatever it holds.
PosTruthy(pos) == pos # None

\* A one-shot buffer: once both parities are cached, nothing is stored.
CacheStore_oneshot(cache, icao, cpr, t) ==
    LET parity == IF cpr.parity = 0 THEN "even" ELSE "odd"
        old == IF icao \in DOMAIN cache THEN cache[icao] ELSE <<>>
        entry == [lat_cpr |-> cpr.lat_cpr, lon_cpr |-> cpr.lon_cpr, ts |-> t]
        new == [p \in DOMAIN old \cup {parity} |->
                   IF p = parity THEN entry ELSE old[p]]
    IN  IF DOMAIN old = {"even", "odd"} THEN cache
        ELSE [a \in DOMAIN cache \cup {icao} |->
                 IF a = icao THEN new ELSE cache[a]]

\* The cache after "_cpr_cache[icao][parity] = {...}".
CacheStore(cache, icao, cpr, t) ==
    LET parity == IF cpr.parity = 0 THEN "even" ELSE "odd"
        old == IF icao \in DOMAIN cache THEN cache[icao] ELSE <<>>
        entry == [lat_cpr |-> cpr.lat_cpr, lon_cpr |-> cpr.lon_cpr, ts |-> t]
        new == [p \in DOMAIN old \cup {parity} |->
                   IF p = parity THEN entry ELSE old[p]]
    IN  [a \in DOMAIN cache \cup {icao} |-> IF a = icao THEN new ELSE cache[a]]

\* _update_raw_flight at time t on the tables (flights, cache): the tables
\* it leaves, the exception that ends it ("" when it returns) and the
\* result of its call of _decode_cpr_position ("resolved" is FALSE when it
\* makes none).
_update_raw_flight(flights, cache, icao, frame, type_code, altitude, callsign, velocity, cpr, receiver_lat, receiver_lon, t) ==
    LET rec1 == IF icao \notin DOMAIN flights
                THEN NewRecord(icao, type_code, altitude, callsign, velocity, t)
                ELSE MergeRecord(flights[icao], type_code, altitude, callsign,
                                 velocity, t)
        put(r) == [a \in DOMAIN flights \cup {icao} |->
                      IF a = icao THEN r ELSE flights[a]]
    IN  IF cpr = None
        THEN [exc |-> "", flights |-> put([rec1 EXCEPT !.raw_frame = Some(frame)]),
              cache |-> cache, resolved |-> FALSE, pos |-> None]
        ELSE
          LET cache1 == CacheStore(cache, icao, Val(cpr), t)
              pos == _decode_cpr_position(Some(cache1[icao]))
              rec2 == IF PosTruthy(pos)
                      THEN [rec1 EXCEPT !.lat = Val(pos)[1], !.lon = Val(pos)[2]]
                      ELSE rec1
              dist == _haversine(receiver_lat, receiver_lon, rec2.lat, rec2.lon)
          IN  IF PosTruthy(pos) /\ receiver_lat # None /\ receiver_lon # None
              THEN IF dist.exc # ""
                   THEN [exc |-> dist.exc, flights |-> put(rec2),
                         cache |-> cache1, resolved |-> TRUE, pos |-> pos]
                   ELSE [exc |-> "",
                         flights |-> put([rec2 EXCEPT !.dist_km = dist.val,
                                                      !.raw_frame = Some(frame)]),
                         cache |-> cache1, resolved |-> TRUE, pos |-> pos]
              ELSE [exc |-> "",
                    flights |-> put([rec2 EXCEPT !.raw_frame = Some(frame)]),
                    cache |-> cache1, resolved |-> TRUE, pos |-> pos]

\* _last_error: the message's fixed part, and the number or text it quotes.
ErrorText(kind, n, c) == Some([kind |-> kind, n |-> n, c |-> c])

\* An ingest_frame without the general handler: the exception leaves it.
CatchGeneral_propagate(u, count, hf) ==
    [ret |-> IF u.exc # "" THEN "raise" ELSE "True", count |-> count,
     error |-> _last_error, flights |-> u.flights, cache |-> u.cache,
     hexed |-> TRUE, fault |-> u.exc, merged |-> TRUE,
     resolved |-> u.resolved, pos |-> u.pos]

\* "except Exception" around the decode and the merge (lines 498-502): what
\* the call leaves when _update_raw_flight ended as u.
CatchGeneral(u, count, hf) ==
    IF u.exc # ""
    THEN [ret |-> "False", count |-> count + 1,
          error |-> ErrorText("General decode error", 0, u.exc),
          flights |-> u.flights, cache |-> u.cache, hexed |-> TRUE,
          fault |-> u.exc, merged |-> TRUE, resolved |-> u.resolved,
          pos |-> u.pos]
    ELSE [ret |-> "True", count |-> count, error |-> _last_error,
          flights |-> u.flights, cache |-> u.cache, hexed |-> TRUE,
          fault |-> "", merged |-> TRUE, resolved |-> u.resolved,
          pos |-> u.pos]

\* ------------------------------------------------------- simulator
\* _seed_sim(lat, lon), for whole degrees lat and lon.
_seed_sim(lat, lon, t) ==
    <<[icao |-> <<"A", "B", "C", "1", "2", "3">>,
       callsign |-> Some(<<"S", "I", "M", "1">>),
       lat |-> Some(Frac(100 * lat + 15, 100)),
       lon |-> Some(Frac(100 * lon - 5, 100)),
       alt_ft |-> Some(31000), heading |-> Some(95),
       dist_km |-> Some(Frac(142, 10)), updated |-> t, mode |-> "sim"],
      [icao |-> <<"D", "E", "F", "4", "5", "6">>,
       callsign |-> Some(<<"S", "I", "M", "2">>),
       lat |-> Some(Frac(100 * lat - 8, 100)),
       lon |-> Some(Frac(100 * lon + 11, 100)),
       alt_ft |-> Some(28000), heading |-> Some(275),
       dist_km |-> Some(Frac(328, 10)), updated |-> t, mode |-> "sim"]>>

_advance_sim(flights, t) ==
    [i \in DOMAIN flights |->
        [flights[i] EXCEPT !.heading = Some((Val(@) + 2) % 360),
                           !.updated = t]]

\* The RAW branch of fetch_flights: dist_km of every record that has both
\* lat and lon is recomputed from (lat, lon).
RefreshDistances(flights, lat, lon) ==
    [a \in DOMAIN flights |->
        IF flights[a].lat # None /\ flights[a].lon # None
        THEN [flights[a] EXCEPT
                 !.dist_km = _haversine(Some(lat), Some(lon),
                                        flights[a].lat, flights[a].lon).val]
        ELSE flights[a]]

Range(f) == {f[x] : x \in DOMAIN f}

\* ----------------------------------------------------------- inputs
\* n as w bits, most significant first.
Bits(n, w) == [i \in 1..w |-> (n \div (2 ^ (w - i))) % 2]

RECURSIVE BitsToHex(_)
BitsToHex(b) ==
    IF b = <<>> THEN <<>>
    ELSE <<HexDigits[BinToInt(SubSeq(b, 1, 4)) + 1]>>
             \o BitsToHex(SubSeq(b, 5, Len(b)))

\* A 112-bit frame as 28 hex characters: DF, CA = 5, the address, the 56
\* bits of the ME field and a zero PI field.
FrameHex(df, icao, me) ==
    BitsToHex(Bits(df, 5) \o Bits(5, 3) \o Bits(icao, 24) \o me \o Bits(0, 24))

\* The 12-bit altitude field of the 11-bit code c with Q-bit q.
AltField(c, q) == LET b == Bits(c, 11) IN SubSeq(b, 1, 7) \o <<q>> \o SubSeq(b, 8, 11)

\* ME of an airborne position message.
MePosition(tc, alt, parity, lat_cpr, lon_cpr) ==
    Bits(tc, 5) \o Bits(0, 3) \o alt \o <<0, parity>>
        \o Bits(lat_cpr, 17) \o Bits(lon_cpr, 17)

RECURSIVE CharCodes(_)
CharCodes(codes) ==
    IF codes = <<>> THEN <<>> ELSE Bits(Head(codes), 6) \o CharCodes(Tail(codes))

\* ME of an aircraft identification message of eight character codes.
MeIdent(tc, codes) == Bits(tc, 5) \o Bits(0, 3) \o CharCodes(codes)

\* ME of an airborne velocity message.
MeVelocity(subtype, ew_dir, ew_mag, ns_dir, ns_mag) ==
    Bits(19, 5) \o Bits(subtype, 3) \o Bits(0, 5) \o <<ew_dir>> \o Bits(ew_mag, 10)
        \o <<ns_dir>> \o Bits(ns_mag, 10) \o Bits(0, 21)

\* The addresses of the frames of test_adsb.py: 40621D and 4840D6.
IcaoA == 4219421
IcaoB == 4735190

\* The frames of test_raw (src/aviator/test_adsb.py, lines 28-33).
TestIdent == <<"8", "D", "4", "8", "4", "0", "D", "6", "2", "0", "2", "C", "C", "3", "7", "1", "C", "3", "2", "C", "E", "0", "5", "7", "6", "0", "9", "8">>
TestEven == <<"8", "D", "4", "0", "6", "2", "1", "D", "5", "8", "C", "3", "8", "2", "D", "6", "9", "0", "C", "8", "A", "C", "2", "8", "6", "3", "A", "7">>
TestOdd == <<"8", "D", "4", "0", "6", "2", "1", "D", "5", "8", "C", "3", "8", "6", "4", "3", "5", "C", "C", "4", "1", "2", "6", "9", "2", "A", "D", "6">>

\* An even position frame of 40621D, altitude 24000 ft, whose latitude
\* code pairs with TestOdd to a latitude of 102 degrees: zone count 0.
PolarEven == FrameHex(17, IcaoA, MePosition(11, AltField(1000, 1), 0, 93010, 51372))
\* An odd position frame of 40621D whose latitude code pairs with TestEven
\* to an odd latitude of 360 * 15 / 59 = 91.5 degrees: zone count 0.
PolarOdd == FrameHex(17, IcaoA, MePosition(11, AltField(1000, 1), 1, 74171, 50194))
\* An even position frame of 40621D without altitude (Q-bit 0).
EvenNoAlt == FrameHex(17, IcaoA, MePosition(11, AltField(1000, 0), 0, 93000, 51372))
\* Identification frames of 40621D: "ALAY" padded with spaces, and all spaces.
IdentAlay == FrameHex(17, IcaoA, MeIdent(4, <<1, 12, 1, 25, 0, 0, 32, 32>>))
IdentBlank == FrameHex(17, IcaoA, MeIdent(4, <<0, 0, 0, 0, 32, 32, 0, 0>>))
\* Velocity frames of 40621D: 100 kt due east and 200 kt due south.
VelEast == FrameHex(17, IcaoA, MeVelocity(1, 0, 101, 0, 1))
VelSouth == FrameHex(17, IcaoA, MeVelocity(1, 0, 1, 1, 201))
\* Frames of other downlink formats.
Df18 == FrameHex(18, IcaoA, MePosition(11, AltField(1560, 1), 0, 93000, 51372))
Df11 == FrameHex(11, IcaoA, MeIdent(4, <<1, 12, 1, 25, 0, 0, 0, 0>>))

\* Malformed variants of a frame f.
Truncated(f) == SubSeq(f, 1, Len(f) - 1)
Extended(f) == f \o <<"0">>
Padded(f) == <<" ">> \o f \o <<" ">>
WithChar(f, i, c) == [f EXCEPT ![i] = c]
LowerHex(c) ==
    CASE c = "A" -> "a" [] c = "B" -> "b" [] c = "C" -> "c"
      [] c = "D" -> "d" [] c = "E" -> "e" [] c = "F" -> "f" [] OTHER -> c
Lower(f) == [i \in DOMAIN f |-> LowerHex(f[i])]
\* f with its last two characters (of the PI field) replaced by the one
\* character U+FB00, which upper-cases to "FF": 27 characters as given.
Ligature(f) == SubSeq(f, 1, Len(f) - 2) \o <<"U+FB00">>

\* The receiver position of test_raw, and no position.
Receivers == {<<None, None>>, <<Some(40), Some(-86)>>}
\* The reference points of fetch_flights(lat, lon).
References == {<<40, -86>>}

\* Frames for the validator: well-formed frames, other downlink formats,
\* and inputs that are not 28 hex characters as given.
ValidatorFrames ==
    {TestEven, PolarOdd, Df18, Lower(Df11),
     Truncated(TestEven), Extended(TestEven), Padded(TestEven), Padded(Df18),
     WithChar(TestEven, 5, "g"), WithChar(TestEven, 5, " "),
     WithChar(TestEven, 12, "U+0663"), Ligature(PolarOdd), Lower(TestEven),
     <<>>}

\* Frames for the position resolver: both parities of one address.
PositionFrames == {TestEven, TestOdd, PolarEven}

\* Frames for the merge: identification, velocity and position frames of
\* one address, and an identification frame of another.
MergeFrames ==
    {IdentAlay, IdentBlank, VelEast, VelSouth, TestEven, PolarEven, EvenNoAlt,
     TestIdent}

AllFrames == ValidatorFrames \cup PositionFrames \cup MergeFrames

\* What lines 465-495 of ingest_frame compute from the input alone: the
\* stripped, upper-cased frame, the outcome of _hex_to_bits and the decoded
\* fields.  The fields are decoded only from a frame of 112 bits.
FrameDecode(hex_frame) ==
    LET hf == Upper(Strip(hex_frame))
        hb == IF Len(hf) = 28 THEN _hex_to_bits(hf)
              ELSE [exc |-> "", bad |-> "", bits |-> <<>>]
        bits == hb.bits
        ok == Len(bits) = 112
        tc == IF ok THEN _decode_type_code(bits) ELSE 0
    IN  [hf |-> hf, exc |-> hb.exc, bad |-> hb.bad, nbits |-> Len(bits),
         df |-> IF ok THEN _decode_df(bits) ELSE 0,
         icao |-> IF ok THEN _decode_icao(bits) ELSE <<>>,
         tc |-> tc,
         altitude |-> IF ok THEN _decode_altitude(bits, tc) ELSE None,
         callsign |-> IF ok THEN _decode_callsign(bits, tc) ELSE None,
         velocity |-> IF ok THEN _decode_velocity(bits, tc) ELSE <<None, None>>,
         cpr |-> IF ok THEN _decode_cpr(bits, tc) ELSE None]

\* FrameDecode of every input of the model, evaluated once.
Decoded == [f \in AllFrames |-> FrameDecode(f)]

\* "return False" of ingest_frame with the globals as they are.
Untouched ==
    [ret |-> "False", count |-> _error_count, error |-> _last_error,
     flights |-> _flights_by_icao, cache |-> _cpr_cache,
     hexed |-> FALSE, fault |-> "", merged |-> FALSE,
     resolved |-> FALSE, pos |-> None]

\* A rejection that sets the reason and forgets to count.
Reject_uncounted(e, h) == [Untouched EXCEPT !.error = e, !.hexed = h]

\* A rejection of ingest_frame: "_error_count += 1", "_last_error = ..." and
\* "return False"; h tells whether _hex_to_bits had been called.
Reject(e, h) ==
    [Untouched EXCEPT !.count = _error_count + 1, !.error = e, !.hexed = h]

\* ingest_frame in the current state: the return value ("raise" for an
\* exception that leaves the function), the globals it leaves, and what it
\* did on the way: hexed (it called _hex_to_bits), merged (it called
\* _update_raw_flight), fault (the exception raised inside, "" when none).
IngestOutcome(hex_frame, receiver_lat, receiver_lon) ==
    LET same == Untouched
        reject(e, h) == Reject(e, h)
        d == Decoded[hex_frame]
        u == _update_raw_flight(_flights_by_icao, _cpr_cache, d.icao, d.hf, d.tc,
                                d.altitude, d.callsign, d.velocity, d.cpr,
                                receiver_lat, receiver_lon, now)
    IN  IF MODE # "raw" THEN same
        ELSE IF Len(d.hf) # 28
        THEN reject(ErrorText("Frame length error", Len(d.hf), ""), FALSE)
        ELSE IF d.exc = "ValueError"
        THEN [reject(ErrorText("Hex decode error", 0, d.bad), TRUE)
                 EXCEPT !.fault = "ValueError"]
        ELSE IF d.nbits # 112
        THEN reject(ErrorText("Bit length error", d.nbits, ""), TRUE)
        ELSE IF d.df # 17
        THEN reject(ErrorText("DF error", d.df, ""), TRUE)
        ELSE CatchGeneral(u, _error_count, d.hf)

\* ------------------------------------------------------ state machine
Call(op) ==
    [op |-> op, ret |-> "None", hexed |-> FALSE, merged |-> FALSE,
     fault |-> "", resolved |-> FALSE, pos |-> None, snapshot |-> {}]

Init ==
    /\ MODE = "sim"
    /\ _error_count = 0
    /\ _last_error = None
    /\ _flights_by_icao = <<>>
    /\ _cpr_cache = <<>>
    /\ _sim_flights = <<>>
    /\ now = 0
    /\ last = Call("import")

\* time.time() moves on between two calls.
Tick ==
    /\ now < MaxTime
    /\ now' = now + 1
    /\ last' = Call("tick")
    /\ UNCHANGED <<MODE, _error_count, _last_error, _flights_by_icao,
                   _cpr_cache, _sim_flights>>

set_mode(mode) ==
    /\ MODE' = IF mode \in {"sim", "raw"} THEN mode ELSE MODE
    /\ last' = [Call("set_mode") EXCEPT
                   !.ret = IF mode \in {"sim", "raw"} THEN "None" ELSE "raise",
                   !.fault = IF mode \in {"sim", "raw"} THEN "" ELSE "ValueError"]
    /\ UNCHANGED <<_error_count, _last_error, _flights_by_icao, _cpr_cache,
                   _sim_flights, now>>

ingest_frame(hex_frame, receiver_lat, receiver_lon) ==
    \E o \in {IngestOutcome(hex_frame, receiver_lat, receiver_lon)} :
        /\ o.count <= MaxErrors
        /\ _error_count' = o.count
        /\ _last_error' = o.error
        /\ _flights_by_icao' = o.flights
        /\ _cpr_cache' = o.cache
        /\ last' = [op |-> "ingest_frame", ret |-> o.ret, hexed |-> o.hexed,
                    merged |-> o.merged, fault |-> o.fault, resolved |-> o.resolved, pos |-> o.pos,
                    snapshot |-> {}]
        /\ UNCHANGED <<MODE, _sim_flights, now>>

\* fetch_flights(lat, lon); op is the name of the call that is recorded.
FetchFlights(lat, lon, op) ==
    IF MODE = "sim"
    THEN /\ IF _sim_flights = <<>> THEN TRUE
            ELSE Val(_sim_flights[1].heading) < 95 + 2 * MaxSimAdvance
         /\ _sim_flights' = IF _sim_flights = <<>>
                            THEN _seed_sim(lat, lon, now)
                            ELSE _advance_sim(_sim_flights, now)
         /\ last' = [Call(op) EXCEPT !.ret = "list",
                                     !.snapshot = Range(_sim_flights')]
         /\ UNCHANGED <<MODE, _error_count, _last_error, _flights_by_icao,
                        _cpr_cache, now>>
    ELSE /\ _flights_by_icao' = RefreshDistances(_flights_by_icao, lat, lon)
         /\ last' = [Call(op) EXCEPT !.ret = "list",
                                     !.snapshot = Range(_flights_by_icao')]
         /\ UNCHANGED <<MODE, _error_count, _last_error, _cpr_cache,
                        _sim_flights, now>>

fetch_flights(lat, lon) == FetchFlights(lat, lon, "fetch_flights")

get_flights == FetchFlights(0, 0, "get_flights")

SetMode == \E mode \in {"sim", "raw", "test"} : set_mode(mode)

Fetch == \E r \in References : fetch_flights(r[1], r[2])

Ingest(frames) ==
    \E f \in frames, r \in Receivers : ingest_frame(f, r[1], r[2])

IngestValidator == Ingest(ValidatorFrames)

IngestPosition == Ingest(PositionFrames)

IngestMerge == Ingest(MergeFrames)

\* Every operation, on position frames of one address.
Next == SetMode \/ Tick \/ IngestPosition \/ Fetch \/ get_flights

Spec == Init /\ [][Next]_vars

\* The validator: well-formed and malformed inputs, all within one second.
NextValidator == SetMode \/ IngestValidator \/ Fetch \/ get_flights

SpecValidator == Init /\ [][NextValidator]_vars

\* The merge: identification, velocity and position frames of two addresses.
NextMerge == SetMode \/ Tick \/ IngestMerge

SpecMerge == Init /\ [][NextMerge]_vars

\* ------------------------------------------------- field decoders
\* The values of the 5-bit Type Code and of the 11-bit altitude code.
TypeCodes == 0..31
AltCodes == 0..2047

\* A 112-bit DF 17 message of 40621D with Type Code tc and the altitude
\* field of code c and Q-bit q; every other bit of the ME field is fill.
AltitudeBits(tc, c, q, fill) ==
    Bits(17, 5) \o Bits(5, 3) \o Bits(IcaoA, 24) \o Bits(tc, 5)
        \o [i \in 1..3 |-> fill] \o AltField(c, q) \o [i \in 1..36 |-> fill]
        \o Bits(0, 24)

\* The module as imported, with the arguments of one decoder call drawn.
InitAltitude ==
    /\ MODE = "sim"
    /\ _error_count = 0
    /\ _last_error = None
    /\ _flights_by_icao = <<>>
    /\ _cpr_cache = <<>>
    /\ _sim_flights = <<>>
    /\ now = 0
    /\ \E tc \in TypeCodes, c \in AltCodes, q \in {0, 1}, fill \in {0, 1} :
          last = [op |-> "call", ret |-> None,
                  args |-> [tc |-> tc, c |-> c, q |-> q, fill |-> fill]]

\* _decode_altitude(bits, tc) as ingest_frame calls it, with tc the Type
\* Code read from the bits.
DecodeAltitude ==
    /\ last.op = "call"
    /\ LET a == last.args
           bits == AltitudeBits(a.tc, a.c, a.q, a.fill)
       IN  last' = [last EXCEPT
                       !.op = "_decode_altitude",
                       !.ret = _decode_altitude(bits, _decode_type_code(bits))]
    /\ UNCHANGED <<MODE, _error_count, _last_error, _flights_by_icao,
                   _cpr_cache, _sim_flights, now>>

\* The altitude decoder applied to every altitude field.
NextAltitude == DecodeAltitude

SpecAltitude == InitAltitude /\ [][NextAltitude]_vars

\* The values of a 6-bit character code.
CharCodeValues == 0..63

\* The eight character codes of the decoder's inputs: every sequence of the
\* codes of a space, "A" and "9"; every code at every position among seven
\* equal codes of a space (0 or 32) or of "A"; "ALAY" with each padding.
CallsignCodes ==
    [1..8 -> {0, 1, 57}]
    \cup {[i \in 1..8 |-> IF i = k THEN v ELSE pad] :
             k \in 1..8, v \in CharCodeValues, pad \in {0, 1, 32}}
    \cup {<<1, 12, 1, 25, 0, 0, 0, 0>>, <<1, 12, 1, 25, 0, 0, 32, 32>>,
          <<1, 12, 1, 25, 32, 32, 32, 32>>}

\* A 112-bit DF 17 message of 40621D with Type Code tc, the three category
\* bits equal to fill and the eight character codes.
CallsignBits(tc, fill, codes) ==
    Bits(17, 5) \o Bits(5, 3) \o Bits(IcaoA, 24) \o Bits(tc, 5)
        \o [i \in 1..3 |-> fill] \o CharCodes(codes) \o Bits(0, 24)

\* The module as imported, with the arguments of one decoder call drawn.
InitCallsign ==
    /\ MODE = "sim"
    /\ _error_count = 0
    /\ _last_error = None
    /\ _flights_by_icao = <<>>
    /\ _cpr_cache = <<>>
    /\ _sim_flights = <<>>
    /\ now = 0
    /\ \E tc \in TypeCodes, fill \in {0, 1}, codes \in CallsignCodes :
          last = [op |-> "call", ret |-> None,
                  args |-> [tc |-> tc, fill |-> fill, codes |-> codes]]

\* _decode_callsign(bits, tc) as ingest_frame calls it, with tc the Type
\* Code read from the bits.
DecodeCallsign ==
    /\ last.op = "call"
    /\ LET a == last.args
           bits == CallsignBits(a.tc, a.fill, a.codes)
       IN  last' = [last EXCEPT
                       !.op = "_decode_callsign",
                       !.ret = _decode_callsign(bits, _decode_type_code(bits))]
    /\ UNCHANGED <<MODE, _error_count, _last_error, _flights_by_icao,
                   _cpr_cache, _sim_flights, now>>

\* The callsign decoder applied to every input.
NextCallsign == DecodeCallsign

SpecCallsign == InitCallsign /\ [][NextCallsign]_vars

\* ------------------------------------------------------------- claims
Both == {"even", "odd"}

\* Both parities are cached for address a.
BothCached(a) == a \in DOMAIN _cpr_cache /\ DOMAIN _cpr_cache[a] = Both

\* The call l was an ingest_frame whose resolution found zone count 0: the
\* resolver returned a latitude without a longitude.
NLZero(l) ==
    l.op = "ingest_frame" /\ l.resolved /\ l.pos # None /\ Val(l.pos)[2] = None

\* lo <= x < hi for an optional fraction x and bounds <<integer part, eight
\* decimals>>.
Within(x, lo, hi) ==
    /\ x # None
    /\ ~FracLess(Val(x).num, Val(x).den, lo[1], lo[2])
    /\ FracLess(Val(x).num, Val(x).den, hi[1], hi[2])

\* C1: whenever ingest_frame returns False, the flight table and the CPR
\* cache are exactly as they were before the call.
C1_RejectedFrameLeavesState ==
    [][(last'.op = "ingest_frame" /\ last'.ret = "False")
          => (/\ _flights_by_icao' = _flights_by_icao
              /\ _cpr_cache' = _cpr_cache)]_vars

\* C4: when resolution finds zone count NL = 0, the frame is still accepted,
\* the stored latitude and longitude of every record stay as they were
\* (absent in a new record) and the cache entries are retained.
C4_ZeroZonesLeavePosition ==
    [][NLZero(last')
          => (/\ last'.ret = "True"
              /\ \A a \in DOMAIN _flights_by_icao' :
                    IF a \in DOMAIN _flights_by_icao
                    THEN /\ _flights_by_icao'[a].lat = _flights_by_icao[a].lat
                         /\ _flights_by_icao'[a].lon = _flights_by_icao[a].lon
                    ELSE /\ _flights_by_icao'[a].lat = None
                         /\ _flights_by_icao'[a].lon = None
              /\ \A a \in DOMAIN _cpr_cache :
                    /\ a \in DOMAIN _cpr_cache'
                    /\ DOMAIN _cpr_cache[a] \subseteq DOMAIN _cpr_cache'[a])]_vars

\* C5: as long as an address has no tuple of the opposite parity cached, its
\* record has neither latitude nor longitude, and a resolution attempted
\* while no address has both parities returns no position.
C5_SingleParityNoPosition ==
    /\ \A a \in DOMAIN _flights_by_icao :
          ~BothCached(a) => /\ _flights_by_icao[a].lat = None
                            /\ _flights_by_icao[a].lon = None
    /\ (last.op = "ingest_frame" /\ last.resolved
            /\ \A a \in DOMAIN _flights_by_icao : ~BothCached(a))
          => last.pos = None

\* A position frame has just been merged for an address that has only one
\* parity cached.
C5_Witness ==
    /\ last.op = "ingest_frame" /\ last.ret = "True" /\ last.resolved
    /\ \E a \in DOMAIN _flights_by_icao :
          /\ a \in DOMAIN _cpr_cache
          /\ ~BothCached(a)
          /\ _flights_by_icao[a].lat = None

\* C7: with the even tuple (93000, 51372) and the odd tuple (74158, 50194)
\* cached and the even tuple the more recent, resolution produces latitude
\* 52.25720 and longitude 3.91937, each within 0.001 degree.
C7_ReferencePosition ==
    \A a \in DOMAIN _cpr_cache :
        (/\ BothCached(a)
         /\ _cpr_cache[a]["even"].lat_cpr = 93000
         /\ _cpr_cache[a]["even"].lon_cpr = 51372
         /\ _cpr_cache[a]["odd"].lat_cpr = 74158
         /\ _cpr_cache[a]["odd"].lon_cpr = 50194
         /\ _cpr_cache[a]["even"].ts > _cpr_cache[a]["odd"].ts
         /\ last.op = "ingest_frame" /\ last.resolved)
        => /\ last.pos # None
           /\ Within(Val(last.pos)[1], <<52, 25620000>>, <<52, 25820000>>)
           /\ Within(Val(last.pos)[2], <<3, 91837000>>, <<3, 92037000>>)

\* The latitude candidate of parity p from the cache entry c.
LatCandidate(c, p) ==
    LET j == (59 * c["even"].lat_cpr - 60 * c["odd"].lat_cpr) \div 131072
    IN  IF p = "even" THEN Frac(6 * ((c["even"].lat_cpr + j) % 60), 1)
        ELSE Frac(360 * ((c["odd"].lat_cpr + j) % 59), 59)

\* The longitude at latitude lat from the longitude code of parity p.
LonCandidate(c, p, lat) ==
    LET ni == _cprNL(lat.num, lat.den)
        m == (c["even"].lon_cpr * (ni - 1) - c["odd"].lon_cpr * ni) \div 131072
    IN  IF ni > 0 THEN Some(Frac(360 * ((c[p].lon_cpr + m) % ni), ni)) ELSE None

\* C10: with both parities cached, resolution takes the latitude candidate
\* and the longitude code of the more recently received parity, and of the
\* even parity when the two timestamps are equal.
C10_RecentParityEvenOnTie ==
    \A a \in DOMAIN _cpr_cache :
        (BothCached(a) /\ last.op = "ingest_frame" /\ last.resolved)
        => LET c == _cpr_cache[a]
               p == IF c["even"].ts >= c["odd"].ts THEN "even" ELSE "odd"
           IN  /\ last.pos # None
               /\ Val(last.pos)[1] = Some(LatCandidate(c, p))
               /\ Val(last.pos)[2] = LonCandidate(c, p, LatCandidate(c, p))

\* C9: in raw mode a snapshot returns every current record and changes a
\* record at most in the dist_km of one that has latitude and longitude;
\* get_flights, which is given no reference point, changes no record.
C9_SnapshotWithoutReference ==
    [][/\ (last'.op \in {"fetch_flights", "get_flights"} /\ MODE = "raw")
            => /\ last'.snapshot = Range(_flights_by_icao')
               /\ DOMAIN _flights_by_icao' = DOMAIN _flights_by_icao
               /\ \A a \in DOMAIN _flights_by_icao :
                     \/ _flights_by_icao'[a] = _flights_by_icao[a]
                     \/ /\ _flights_by_icao[a].lat # None
                        /\ _flights_by_icao[a].lon # None
                        /\ _flights_by_icao'[a] =
                              [_flights_by_icao[a] EXCEPT
                                  !.dist_km = _flights_by_icao'[a].dist_km]
       /\ last'.op = "get_flights" => _flights_by_icao' = _flights_by_icao]_vars

\* The hexadecimal characters, in both cases.
PlainHex ==
    {"0", "1", "2", "3", "4", "5", "6", "7", "8", "9",
     "A", "B", "C", "D", "E", "F", "a", "b", "c", "d", "e", "f"}

\* The input is exactly 28 hexadecimal characters.
IsHex28(f) == Len(f) = 28 /\ \A i \in 1..28 : f[i] \in PlainHex

\* The value of a hexadecimal character (U+0663 counts as the digit 3).
HexDigitValue(c) ==
    LET up == <<"0", "1", "2", "3", "4", "5", "6", "7",
                "8", "9", "A", "B", "C", "D", "E", "F">>
        lo == <<"0", "1", "2", "3", "4", "5", "6", "7",
                "8", "9", "a", "b", "c", "d", "e", "f">>
    IN  IF c = "U+0663" THEN 3
        ELSE (CHOOSE v \in 1..16 : up[v] = c \/ lo[v] = c) - 1

\* The Downlink Format field: the first five bits of the first two characters.
DownlinkFormat(f) == (16 * HexDigitValue(f[1]) + HexDigitValue(f[2])) \div 8

\* The input as ingest_frame reads it: surrounding whitespace stripped, then
\* upper-cased.
Normalised(f) == Upper(Strip(f))

\* The characters int(c, 16) accepts among the upper-cased characters: the
\* hexadecimal digits and the Unicode decimal digits.
Digit16 ==
    {"0", "1", "2", "3", "4", "5", "6", "7", "8", "9",
     "A", "B", "C", "D", "E", "F", "U+0663"}

\* The normalised input is exactly 28 base-16 digits.
WellFormed(f) ==
    Len(Normalised(f)) = 28 /\ \A i \in 1..28 : Normalised(f)[i] \in Digit16

\* C2 as amended: in raw mode, for every 28-character hexadecimal input
\* whose Downlink Format is not 17, ingest_frame returns False and the
\* rejected-frame count increases by exactly 1.
C2_WrongFormatCountedInRawMode ==
    MODE = "raw" =>
        \A f \in ValidatorFrames, r \in Receivers :
            (IsHex28(f) /\ DownlinkFormat(f) # 17)
            => LET o == IngestOutcome(f, r[1], r[2])
               IN  o.ret = "False" /\ o.count = _error_count + 1

\* C2 as stated: for every 28-character hexadecimal input whose Downlink
\* Format is not 17, in any state, ingest_frame returns False and the
\* rejected-frame count increases by exactly 1.
C2_WrongFormatCounted ==
    \A f \in ValidatorFrames, r \in Receivers :
        (IsHex28(f) /\ DownlinkFormat(f) # 17)
        => LET o == IngestOutcome(f, r[1], r[2])
           IN  o.ret = "False" /\ o.count = _error_count + 1

\* A frame of Downlink Format 18 has just been rejected in raw mode.
C2_Witness ==
    /\ MODE = "raw" /\ last.op = "ingest_frame" /\ last.ret = "False"
    /\ _last_error = ErrorText("DF error", 18, "")
    /\ _error_count >= 1

\* C3 as amended: in raw mode every input whose normalised form is not
\* exactly 28 base-16 digits is rejected and counted, without a call of
\* _hex_to_bits when that form is not 28 characters long; in any mode a frame
\* is accepted only in raw mode, when its normalised form is 28 base-16
\* digits with Downlink Format 17.
C3_MalformedRejected ==
    \A f \in ValidatorFrames, r \in Receivers :
        LET o == IngestOutcome(f, r[1], r[2])
        IN  /\ (MODE = "raw" /\ ~WellFormed(f))
                  => o.ret = "False" /\ o.count = _error_count + 1
            /\ (MODE = "raw" /\ Len(Normalised(f)) # 28) => ~o.hexed
            /\ o.ret = "True"
                  => /\ MODE = "raw"
                     /\ WellFormed(f)
                     /\ DownlinkFormat(Normalised(f)) = 17

\* C3 as stated, read in raw mode: every input that is not exactly 28
\* hexadecimal characters is rejected and counted, without bit decoding when
\* its length is not 28; a frame is accepted only if it is exactly 28
\* hexadecimal characters with Downlink Format 17.
C3_NotHex28Rejected ==
    MODE = "raw" =>
        \A f \in ValidatorFrames, r \in Receivers :
            LET o == IngestOutcome(f, r[1], r[2])
            IN  /\ ~IsHex28(f) => o.ret = "False" /\ o.count = _error_count + 1
                /\ Len(f) # 28 => ~o.hexed
                /\ o.ret = "True" => IsHex28(f) /\ DownlinkFormat(f) = 17

\* An input of the wrong length has just been rejected before any decoding.
C3_Witness ==
    /\ MODE = "raw" /\ last.op = "ingest_frame" /\ last.ret = "False"
    /\ ~last.hexed
    /\ _last_error = ErrorText("Frame length error", 27, "")

\* C8: ingest_frame returns True or False and never raises; a fault that
\* arises inside it ends as a rejection: False, the count one higher and the
\* reason set.
C8_IngestTotal ==
    [][last'.op = "ingest_frame"
          => /\ last'.ret \in {"True", "False"}
             /\ last'.fault # ""
                   => /\ last'.ret = "False"
                      /\ _error_count' = _error_count + 1
                      /\ _last_error' # None
                      /\ Val(_last_error').kind \in
                            {"Hex decode error", "General decode error"}
                      /\ Val(_last_error').c # ""]_vars

\* The distance computation has just raised TypeError inside ingest_frame.
C8_Witness ==
    /\ last.op = "ingest_frame" /\ last.fault = "TypeError" /\ last.merged
    /\ last.ret = "False"
    /\ _last_error = ErrorText("General decode error", 0, "TypeError")

\* The addresses and callsigns of the merge frames, as text.
AddrA == <<"4", "0", "6", "2", "1", "D">>
AddrB == <<"4", "8", "4", "0", "D", "6">>
Alay == <<"A", "L", "A", "Y">>
Klm1023 == <<"K", "L", "M", "1", "0", "2", "3">>

\* What each merge frame supplies, from the fields it was built of.
Supplied(f) ==
    LET none == [icao |-> AddrA, alt_ft |-> None, callsign |-> None,
                 heading |-> None, gs_kt |-> None]
    IN  CASE f = IdentAlay -> [none EXCEPT !.callsign = Some(Alay)]
          [] f = IdentBlank -> none
          [] f = VelEast -> [none EXCEPT !.heading = Some(90), !.gs_kt = Some(100)]
          [] f = VelSouth -> [none EXCEPT !.heading = Some(180), !.gs_kt = Some(200)]
          [] f = TestEven -> [none EXCEPT !.alt_ft = Some(38000)]
          [] f = PolarEven -> [none EXCEPT !.alt_ft = Some(24000)]
          [] f = EvenNoAlt -> none
          [] f = TestIdent -> [none EXCEPT !.icao = AddrB,
                                           !.callsign = Some(Klm1023)]

MergedFields == {"alt_ft", "callsign", "heading", "gs_kt"}

\* C6: an accepted frame sets each of altitude, callsign, heading and ground
\* speed of its address's record to the value it supplies and leaves a field
\* it does not supply as it was (absent in a new record); the records of
\* other addresses stay as they were.
C6_FieldwiseLastValueWins ==
    \A f \in MergeFrames, r \in Receivers :
        LET o == IngestOutcome(f, r[1], r[2])
            s == Supplied(f)
            a == s.icao
        IN  o.ret = "True"
            => /\ a \in DOMAIN o.flights
               /\ \A k \in MergedFields :
                     o.flights[a][k] =
                        IF s[k] # None THEN s[k]
                        ELSE IF a \in DOMAIN _flights_by_icao
                             THEN _flights_by_icao[a][k] ELSE None
               /\ \A b \in DOMAIN _flights_by_icao \ {a} :
                     o.flights[b] = _flights_by_icao[b]

\* An altitude-only frame and then a callsign-only frame have been merged:
\* both fields are set.
C6_Witness ==
    /\ last.op = "ingest_frame" /\ last.ret = "True"
    /\ AddrA \in DOMAIN _flights_by_icao
    /\ _flights_by_icao[AddrA].raw_frame = Some(IdentAlay)
    /\ _flights_by_icao[AddrA].callsign = Some(Alay)
    /\ _flights_by_icao[AddrA].alt_ft = Some(38000)
    /\ _flights_by_icao[AddrA].heading = None

\* The CPR tuple each position frame of 40621D carries, from the fields it
\* was built of.
PositionTuple(f) ==
    CASE f = TestEven -> [parity |-> "even", lat_cpr |-> 93000, lon_cpr |-> 51372]
      [] f = TestOdd -> [parity |-> "odd", lat_cpr |-> 74158, lon_cpr |-> 50194]
      [] f = PolarEven -> [parity |-> "even", lat_cpr |-> 93010, lon_cpr |-> 51372]

\* Parity p is cached for 40621D.
Cached(p) == AddrA \in DOMAIN _cpr_cache /\ p \in DOMAIN _cpr_cache[AddrA]

\* C11: an accepted position frame replaces the cached tuple of its own
\* parity with its own tuple and the time of the call, leaves the tuple of
\* the opposite parity as it was, and, whenever the opposite parity is
\* cached, makes a resolution from the tuple just received and the tuple
\* retained.
C11_RollingWindow ==
    \A f \in PositionFrames, r \in Receivers :
        LET o == IngestOutcome(f, r[1], r[2])
            s == PositionTuple(f)
            q == IF s.parity = "even" THEN "odd" ELSE "even"
            got == [lat_cpr |-> s.lat_cpr, lon_cpr |-> s.lon_cpr, ts |-> now]
        IN  o.ret = "True"
            => /\ AddrA \in DOMAIN o.cache
               /\ s.parity \in DOMAIN o.cache[AddrA]
               /\ o.cache[AddrA][s.parity] = got
               /\ IF Cached(q)
                  THEN /\ q \in DOMAIN o.cache[AddrA]
                       /\ o.cache[AddrA][q] = _cpr_cache[AddrA][q]
                       /\ o.resolved
                       /\ o.pos = IF s.parity = "even"
                                  THEN ResolvePair(got, _cpr_cache[AddrA][q])
                                  ELSE ResolvePair(_cpr_cache[AddrA][q], got)
                  ELSE q \notin DOMAIN o.cache[AddrA]

\* A position frame has just been resolved to a position other than the one
\* the record's distance was computed for: a resolution after the first.
C11_Witness ==
    /\ last.op = "ingest_frame" /\ last.ret = "True" /\ last.resolved
    /\ BothCached(AddrA)
    /\ AddrA \in DOMAIN _flights_by_icao
    /\ last.pos = Some(<<_flights_by_icao[AddrA].lat, _flights_by_icao[AddrA].lon>>)
    /\ _flights_by_icao[AddrA].lat # None
    /\ _flights_by_icao[AddrA].lon # None
    /\ _flights_by_icao[AddrA].dist_km # None
    /\ Val(_flights_by_icao[AddrA].dist_km).to #
          <<Val(_flights_by_icao[AddrA].lat), Val(_flights_by_icao[AddrA].lon)>>

\* C12: for every Type Code in 9..18 and every 11-bit code c, the altitude
\* field with Q-bit 1 and the remaining bits equal to c decodes to
\* 25 * c - 1000 feet; with Q-bit 0, or a Type Code outside 9..18, the
\* altitude is absent.
C12_AltitudeDecoding ==
    last.op = "_decode_altitude"
    => last.ret = IF last.args.tc \in 9..18 /\ last.args.q = 1
                  THEN Some(25 * last.args.c - 1000)
                  ELSE None

\* The altitude field of code 1560 with Q-bit 1 in a Type Code 11 message
\* has been decoded to 38000 feet.
C12_Witness ==
    /\ last.op = "_decode_altitude"
    /\ last.args.tc = 11 /\ last.args.q = 1 /\ last.args.c = 1560
    /\ last.ret = Some(38000)

\* The character of a 6-bit code: 1..26 are the letters, 48..57 the digits,
\* every other code a space.
CodeChar(v) ==
    CASE v \in 1..26 ->
            <<"A", "B", "C", "D", "E", "F", "G", "H", "I", "J", "K", "L", "M",
              "N", "O", "P", "Q", "R", "S", "T", "U", "V", "W", "X", "Y",
              "Z">>[v]
      [] v \in 48..57 ->
            <<"0", "1", "2", "3", "4", "5", "6", "7", "8", "9">>[v - 47]
      [] OTHER -> " "

\* s without its trailing spaces.
RECURSIVE TrimTrailing(_)
TrimTrailing(s) ==
    IF s # <<>> /\ s[Len(s)] = " " THEN TrimTrailing(SubSeq(s, 1, Len(s) - 1))
    ELSE s

\* s without its leading spaces.
RECURSIVE TrimLeading(_)
TrimLeading(s) ==
    IF s # <<>> /\ s[1] = " " THEN TrimLeading(Tail(s)) ELSE s

\* The text t as a callsign: absent when empty.
AsCallsign(t) == IF t = <<>> THEN None ELSE Some(t)

\* C13 as amended: for Type Code 1..4 the callsign is the string of the
\* eight mapped characters with leading and trailing spaces trimmed, at
\* most 8 characters long, and absent when every character maps to a space;
\* the codes 1, 12, 1, 25 followed by space padding decode to "ALAY"; for
\* any other Type Code the callsign is absent.
C13_CallsignTrimmedBothEnds ==
    last.op = "_decode_callsign"
    => LET a == last.args
           text == [i \in 1..8 |-> CodeChar(a.codes[i])]
       IN  /\ last.ret = IF a.tc \in 1..4
                         THEN AsCallsign(TrimLeading(TrimTrailing(text)))
                         ELSE None
           /\ last.ret # None => Len(Val(last.ret)) \in 1..8
           /\ (/\ a.tc \in 1..4
               /\ SubSeq(a.codes, 1, 4) = <<1, 12, 1, 25>>
               /\ \A i \in 5..8 : a.codes[i] \in {0, 32})
                 => last.ret = Some(Alay)

\* C13 as stated: for Type Code 1..4 the callsign is the string of the
\* eight mapped characters with trailing spaces trimmed, absent when every
\* character maps to a space; for any other Type Code it is absent.
C13_CallsignTrimmedTrailing ==
    last.op = "_decode_callsign"
    => LET a == last.args
           text == [i \in 1..8 |-> CodeChar(a.codes[i])]
       IN  last.ret = IF a.tc \in 1..4
                      THEN AsCallsign(TrimTrailing(text))
                      ELSE None

\* The codes of " A 9A   " have been decoded to "A 9A": the space inside is
\* kept, the spaces at both ends are gone.
C13_Witness ==
    /\ last.op = "_decode_callsign"
    /\ last.args.tc = 4
    /\ last.args.codes = <<0, 1, 0, 57, 1, 0, 0, 0>>
    /\ last.ret = Some(<<"A", " ", "9", "A">>)

\* C14: in every reachable state each record of the flight table has
\* latitude and longitude both absent or both present, and has a dist_km
\* only if it has both.
C14_PositionBothOrNeither ==
    \A a \in DOMAIN _flights_by_icao :
        LET rec == _flights_by_icao[a]
        IN  /\ rec.lat = None <=> rec.lon = None
            /\ rec.dist_km # None => rec.lat # None /\ rec.lon # None

====
